---- MODULE Spec2Model ----
(***************************************************************************)
(* State-machine model of legacy.py: StreamBot.run and the functions it    *)
(* calls.  The program is one thread of control; pc names the source line  *)
(* about to be executed, stack holds the Python call frames, and log is    *)
(* the sequence of calls issued to the collaborators (browser sessions,    *)
(* HTTP client) with the outcome of each call.                             *)
(***************************************************************************)
EXTENDS Integers, Sequences, FiniteSets, TLC

VARIABLES pc, stack, log, primary, extra, nspawn, new_driver, resp, online, exc

vars == <<pc, stack, log, primary, extra, nspawn, new_driver, resp, online, exc>>

(* Bound on the number of times the player can be reported visible inside  *)
(* the wait loop of one run.                                               *)
MaxPolls == 4

(* ------------------------------ constants ------------------------------ *)

PlatformUrl == "https://kick.com/brutalles"
TwitchUrl == "https://www.twitch.tv/brutalles"
AcceptButton == "button:contains(Accept)"
PlayerElement == "#injected-channel-player"

RunReconnect == 4
MirrorReconnect == 5
TwitchReconnect == 5
ClickReconnect == 4
OpenSettle == 4
CaptchaClickSettle == 1
CaptchaHandleSettle == 4
MonitorSettle == 10
PollInterval == 10
StepPause == 1

(* Response bodies the HTTP client may hand back, as character sequences.  *)
Marker == <<"i","s","L","i","v","e","B","r","o","a","d","c","a","s","t">>
NoBody == <<"-">>
Bodies ==
  { <<>>,
    <<"<","h","t","m","l",">">>,
    Marker,
    <<"{">> \o Marker \o <<"}">>,
    <<"i","s","L","i","v","e">>,
    <<"i","s","l","i","v","e","b","r","o","a","d","c","a","s","t">>,
    <<"i","s","L","i","v","e","B","r","o","a","d","c","a","s","T">> \o Marker }

ContainsAtStart(needle, hay) ==
  /\ Len(hay) >= Len(needle)
  /\ \A j \in 1..Len(needle) : hay[j] = needle[j]

(* "isLiveBroadcast" in resp.text *)
Contains(needle, hay) ==
  \E i \in 0..(Len(hay) - Len(needle)) :
     \A j \in 1..Len(needle) : hay[i + j] = needle[j]

(* ------------------------------- helpers ------------------------------- *)

Frame(fn, drv, rt, ret) == [fn |-> fn, drv |-> drv, rt |-> rt, ret |-> ret]

(* The statement of run that is being executed: the function run called,   *)
(* or "run" itself for the statements of its own body.                     *)
Step == IF Len(stack) >= 2 THEN stack[2].fn ELSE "run"

(* A logged call: source line, operation, receiver, selector or URL,       *)
(* numeric argument (seconds or reconnect budget), outcome.                *)
Ev(line, op, on, sel, n, res) ==
  [line |-> line, op |-> op, on |-> on, sel |-> sel, n |-> n, res |-> res,
   step |-> Step]

Top == stack[Len(stack)]
Pop == SubSeq(stack, 1, Len(stack) - 1)

Void == {"ok", "raise"}
Bool == {"true", "false", "raise"}

(* Number of 10s waits performed so far inside the wait loop. *)
Waits == Cardinality({i \in 1..Len(log) : log[i].line = 83})

PropagateSwallowed(res, stk, nextpc, nextstack) ==
  [pc |-> nextpc, stack |-> nextstack, exc |-> FALSE]

(* No function of the program has a try/except: a failing call unwinds     *)
(* every frame down to the with-statement of run.                          *)
Propagate(res, stk, nextpc, nextstack) ==
  IF res = "raise"
  THEN [pc |-> "exit", stack |-> <<stk[1]>>, exc |-> TRUE]
  ELSE [pc |-> nextpc, stack |-> nextstack, exc |-> FALSE]

(* One call on a collaborator: append it to the log and move on.           *)
Do(e, nextpc, nextstack) ==
  LET to == Propagate(e.res, stack, nextpc, nextstack) IN
  /\ log' = Append(log, e)
  /\ pc' = to.pc
  /\ stack' = to.stack
  /\ exc' = to.exc

(* driver.get_new_driver(undetectable=True) *)
ExtraName(k) == IF k = 1 THEN "extra1" ELSE "extra2"

QuitExtraDriverClosesAll(p, x) == [primary |-> "closed", extra |-> <<>>]

QuitExtraDriverNoop(p, x) == [primary |-> p, extra |-> x]

(* driver.quit_extra_driver() *)
QuitExtraDriver(p, x) ==
  [primary |-> p, extra |-> SubSeq(x, 1, Len(x) - 1)]

ScopeExitOnSuccessOnly(p, e) == IF e THEN p ELSE "closed"

(* __exit__ of the with-statement *)
ScopeExit(p, e) == "closed"

ConsentNextUnchecked(res, click, skip) == click

(* if driver.is_element_present(...): driver.uc_click(...) *)
ConsentNext(res, click, skip) == IF res = "true" THEN click ELSE skip

KickEntryNextTeardown(res, ret) == IF res = "true" THEN "L76" ELSE "L84"

(* if driver.is_element_visible('#injected-channel-player'): *)
KickEntryNext(res, ret) == IF res = "true" THEN "L76" ELSE ret

KickLoopNextNoTeardown(res, waits) == IF res = "true" THEN "L83" ELSE "L113"

KickLoopNextBounded(res, waits) ==
  IF res = "true" /\ waits < 2 THEN "L83" ELSE "L84"

(* while driver.is_element_visible('#injected-channel-player'): *)
KickLoopNext(res, waits) == IF res = "true" THEN "L83" ELSE "L84"

KickAfterSleepOnce == "L84"

(* body of the while loop: driver.sleep(10), then back to the test *)
KickAfterSleep == "L82"

KickAfterRecheckSleepFirst == "L83"

(* after the consent re-check on the secondary: the while test of line 82 *)
KickAfterRecheck == "L82"

TwitchAfterRecheckWait == "L82"

(* after the consent re-check on the secondary: lines 100-103 are comments, *)
(* the next statement is the teardown of line 104                          *)
TwitchAfterRecheck == "L104"

TwitchEntryNextUnconditional(live, ret) == "L92"

TwitchEntryNextSkipPrimary(live, ret) == IF live THEN "L95" ELSE ret

(* if StreamStatusChecker.is_twitch_online(...): *)
TwitchEntryNext(live, ret) == IF live THEN "L92" ELSE ret

RunNextNoPause(line) ==
  CASE line = "L110" -> "L111"
    [] line = "L111" -> "L112"
    [] line = "L112" -> "L114"
    [] line = "L113" -> "L114"
    [] line = "L114" -> "L115"
    [] line = "L115" -> "exit"

OpenNextNoSettle(line) ==
  CASE line = "L63" -> "L66"
    [] line = "L64" -> "L66"

(* statement order at the start of open_stream_and_handle_popups *)
OpenNext(line) ==
  CASE line = "L63" -> "L64"
    [] line = "L64" -> "L66"

RunNextKickFirst(line) ==
  CASE line = "L110" -> "L112"
    [] line = "L112" -> "L111"
    [] line = "L111" -> "L113"
    [] line = "L113" -> "L114"
    [] line = "L114" -> "L115"
    [] line = "L115" -> "exit"

(* statement order inside the with-block of run *)
RunNext(line) ==
  CASE line = "L110" -> "L111"
    [] line = "L111" -> "L112"
    [] line = "L112" -> "L113"
    [] line = "L113" -> "L114"
    [] line = "L114" -> "L115"
    [] line = "L115" -> "exit"

(* ------------------------------- initial ------------------------------- *)

Init ==
  /\ pc = "L110"
  /\ stack = <<Frame("run", "none", 0, "none")>>
  /\ log = <<>>
  /\ primary = "none"
  /\ extra = <<>>
  /\ nspawn = 0
  /\ new_driver = "none"
  /\ resp = NoBody
  /\ online = "unset"
  /\ exc = FALSE

(* -------------------------------- run ---------------------------------- *)

(* with SB(uc=True, test=True) as driver: *)
SBEnter ==
  /\ pc = "L110"
  /\ primary = "none"
  /\ primary' = "open"
  /\ Do(Ev(110, "SB_enter", "primary", "", 0, "ok"), RunNext("L110"),
        <<Frame("run", "primary", 0, "none")>>)
  /\ UNCHANGED <<extra, nspawn, new_driver, resp, online>>

(* self.open_stream_and_handle_popups(driver, reconnect_time=4) *)
RunCallOpen ==
  /\ pc = "L111"
  /\ pc' = "L63"
  /\ stack' = Append(stack, Frame("open", Top.drv, RunReconnect, RunNext("L111")))
  /\ UNCHANGED <<log, primary, extra, nspawn, new_driver, resp, online, exc>>

(* self.monitor_kick_stream(driver) *)
RunCallKick ==
  /\ pc = "L112"
  /\ pc' = "L75"
  /\ stack' = Append(stack, Frame("kick", Top.drv, 0, RunNext("L112")))
  /\ UNCHANGED <<log, primary, extra, nspawn, new_driver, resp, online, exc>>

(* driver.sleep(1) *)
RunSleepAfterKick ==
  /\ pc = "L113"
  /\ Do(Ev(113, "sleep", Top.drv, "", StepPause, "ok"), RunNext("L113"), stack)
  /\ UNCHANGED <<primary, extra, nspawn, new_driver, resp, online>>

(* self.monitor_twitch_stream(driver) *)
RunCallTwitch ==
  /\ pc = "L114"
  /\ pc' = "L90"
  /\ stack' = Append(stack, Frame("twitch", Top.drv, 0, RunNext("L114")))
  /\ UNCHANGED <<log, primary, extra, nspawn, new_driver, resp, online, exc>>

(* driver.sleep(1) *)
RunSleepAfterTwitch ==
  /\ pc = "L115"
  /\ Do(Ev(115, "sleep", Top.drv, "", StepPause, "ok"), RunNext("L115"), stack)
  /\ UNCHANGED <<primary, extra, nspawn, new_driver, resp, online>>

(* leaving the with-block, normally or with a failure in flight: the       *)
(* session scope releases the primary session.  Whether it also disposes   *)
(* of a secondary session that is still live is the session library's      *)
(* business; both outcomes are allowed.                                    *)
SBExit ==
  /\ pc = "exit"
  /\ pc' = "done"
  /\ primary' = ScopeExit(primary, exc)
  /\ extra' \in {extra, <<>>}
  /\ log' = Append(log, Ev(110, "SB_exit", "primary", "", 0, "ok"))
  /\ UNCHANGED <<stack, nspawn, new_driver, resp, online, exc>>

(* -------------------- open_stream_and_handle_popups -------------------- *)

(* driver.uc_open_with_reconnect(self.streamer.platform_url, reconnect_time) *)
OpenNavigate ==
  /\ pc = "L63"
  /\ \E r \in Void :
       Do(Ev(63, "uc_open_with_reconnect", Top.drv, PlatformUrl, Top.rt, r),
          OpenNext("L63"), stack)
  /\ UNCHANGED <<primary, extra, nspawn, new_driver, resp, online>>

(* driver.sleep(4) *)
OpenSleep ==
  /\ pc = "L64"
  /\ Do(Ev(64, "sleep", Top.drv, "", OpenSettle, "ok"), OpenNext("L64"), stack)
  /\ UNCHANGED <<primary, extra, nspawn, new_driver, resp, online>>

(* captcha = CaptchaHandler(driver); captcha.handle_captcha() *)
OpenCallCaptcha ==
  /\ pc = "L66"
  /\ pc' = "L46"
  /\ stack' = Append(stack, Frame("handle_captcha", Top.drv, 0, "L68"))
  /\ UNCHANGED <<log, primary, extra, nspawn, new_driver, resp, online, exc>>

(* if driver.is_element_present('button:contains("Accept")'): *)
OpenConsentCheck ==
  /\ pc = "L68"
  /\ \E r \in Bool :
       LET nxt == ConsentNext(r, "L69", Top.ret) IN
       Do(Ev(68, "is_element_present", Top.drv, AcceptButton, 0, r),
          nxt, IF nxt = "L69" THEN stack ELSE Pop)
  /\ UNCHANGED <<primary, extra, nspawn, new_driver, resp, online>>

(* driver.uc_click('button:contains("Accept")', reconnect_time=4) *)
OpenConsentClick ==
  /\ pc = "L69"
  /\ \E r \in Void :
       Do(Ev(69, "uc_click", Top.drv, AcceptButton, ClickReconnect, r),
          Top.ret, Pop)
  /\ UNCHANGED <<primary, extra, nspawn, new_driver, resp, online>>

(* ---------------------- CaptchaHandler.handle_captcha ------------------ *)

(* self.driver.uc_gui_click_captcha() *)
CaptchaClick ==
  /\ pc = "L46"
  /\ \E r \in Void :
       Do(Ev(46, "uc_gui_click_captcha", Top.drv, "", 0, r), "L47", stack)
  /\ UNCHANGED <<primary, extra, nspawn, new_driver, resp, online>>

(* self.driver.sleep(1) *)
CaptchaSleep1 ==
  /\ pc = "L47"
  /\ Do(Ev(47, "sleep", Top.drv, "", CaptchaClickSettle, "ok"), "L48", stack)
  /\ UNCHANGED <<primary, extra, nspawn, new_driver, resp, online>>

(* self.driver.uc_gui_handle_captcha() *)
CaptchaHandle ==
  /\ pc = "L48"
  /\ \E r \in Void :
       Do(Ev(48, "uc_gui_handle_captcha", Top.drv, "", 0, r), "L49", stack)
  /\ UNCHANGED <<primary, extra, nspawn, new_driver, resp, online>>

(* self.driver.sleep(4), then return *)
CaptchaSleep4 ==
  /\ pc = "L49"
  /\ Do(Ev(49, "sleep", Top.drv, "", CaptchaHandleSettle, "ok"), Top.ret, Pop)
  /\ UNCHANGED <<primary, extra, nspawn, new_driver, resp, online>>

(* ------------------------- monitor_kick_stream ------------------------- *)

(* if driver.is_element_visible('#injected-channel-player'): *)
KickEntryCheck ==
  /\ pc = "L75"
  /\ \E r \in Bool :
       LET nxt == KickEntryNext(r, Top.ret) IN
       Do(Ev(75, "is_element_visible", Top.drv, PlayerElement, 0, r),
          nxt, IF nxt = Top.ret THEN Pop ELSE stack)
  /\ UNCHANGED <<primary, extra, nspawn, new_driver, resp, online>>

(* new_driver = driver.get_new_driver(undetectable=True) *)
KickSpawn ==
  /\ pc = "L76"
  /\ \E r \in Void :
       /\ Do(Ev(76, "get_new_driver", Top.drv, "", 0, r), "L77", stack)
       /\ IF r = "ok"
          THEN /\ nspawn' = nspawn + 1
               /\ extra' = Append(extra, ExtraName(nspawn + 1))
               /\ new_driver' = ExtraName(nspawn + 1)
          ELSE UNCHANGED <<nspawn, extra, new_driver>>
  /\ UNCHANGED <<primary, resp, online>>

(* self.open_stream_and_handle_popups(new_driver, reconnect_time=5) *)
KickCallOpen ==
  /\ pc = "L77"
  /\ pc' = "L63"
  /\ stack' = Append(stack, Frame("open", new_driver, MirrorReconnect, "L78"))
  /\ UNCHANGED <<log, primary, extra, nspawn, new_driver, resp, online, exc>>

(* driver.sleep(10) *)
KickSettle ==
  /\ pc = "L78"
  /\ Do(Ev(78, "sleep", Top.drv, "", MonitorSettle, "ok"), "L79", stack)
  /\ UNCHANGED <<primary, extra, nspawn, new_driver, resp, online>>

(* if new_driver.is_element_present('button:contains("Accept")'): *)
KickConsentCheck ==
  /\ pc = "L79"
  /\ \E r \in Bool :
       Do(Ev(79, "is_element_present", new_driver, AcceptButton, 0, r),
          ConsentNext(r, "L80", KickAfterRecheck), stack)
  /\ UNCHANGED <<primary, extra, nspawn, new_driver, resp, online>>

(* new_driver.uc_click('button:contains("Accept")', reconnect_time=4) *)
KickConsentClick ==
  /\ pc = "L80"
  /\ \E r \in Void :
       Do(Ev(80, "uc_click", new_driver, AcceptButton, ClickReconnect, r),
          KickAfterRecheck, stack)
  /\ UNCHANGED <<primary, extra, nspawn, new_driver, resp, online>>

(* while driver.is_element_visible('#injected-channel-player'): *)
KickLoopTest ==
  /\ pc = "L82"
  /\ \E r \in Bool :
       /\ r = "true" => Waits < MaxPolls
       /\ Do(Ev(82, "is_element_visible", Top.drv, PlayerElement, 0, r),
             KickLoopNext(r, Waits), stack)
  /\ UNCHANGED <<primary, extra, nspawn, new_driver, resp, online>>

(* driver.sleep(10) *)
KickLoopSleep ==
  /\ pc = "L83"
  /\ Do(Ev(83, "sleep", Top.drv, "", PollInterval, "ok"), KickAfterSleep, stack)
  /\ UNCHANGED <<primary, extra, nspawn, new_driver, resp, online>>

(* driver.quit_extra_driver(), then return *)
KickTeardown ==
  /\ pc = "L84"
  /\ \E r \in Void :
       /\ Do(Ev(84, "quit_extra_driver", Top.drv, "", 0, r), Top.ret, Pop)
       /\ IF r = "ok"
          THEN /\ primary' = QuitExtraDriver(primary, extra).primary
               /\ extra' = QuitExtraDriver(primary, extra).extra
               /\ new_driver' = "none"
          ELSE UNCHANGED <<primary, extra, new_driver>>
  /\ UNCHANGED <<nspawn, resp, online>>

(* ------------------- StreamStatusChecker.is_twitch_online --------------- *)

(* if StreamStatusChecker.is_twitch_online(self.streamer.username): (call) *)
TwitchCallProbe ==
  /\ pc = "L90"
  /\ pc' = "L33"
  /\ stack' = Append(stack, Frame("is_twitch_online", "http", 0, "L90r"))
  /\ UNCHANGED <<log, primary, extra, nspawn, new_driver, resp, online, exc>>

(* resp = requests.get(url, headers=headers) *)
ProbeRequest ==
  /\ pc = "L33"
  /\ \E r \in Void :
       /\ Do(Ev(33, "requests_get", "http", TwitchUrl, 0, r), "L34", stack)
       /\ IF r = "ok" THEN resp' \in Bodies ELSE resp' = resp
  /\ UNCHANGED <<primary, extra, nspawn, new_driver, online>>

(* return "isLiveBroadcast" in resp.text *)
ProbeReturn ==
  /\ pc = "L34"
  /\ online' = IF Contains(Marker, resp) THEN "true" ELSE "false"
  /\ pc' = Top.ret
  /\ stack' = Pop
  /\ UNCHANGED <<log, primary, extra, nspawn, new_driver, resp, exc>>

(* ------------------------ monitor_twitch_stream ------------------------- *)

(* if <value returned by is_twitch_online>: *)
TwitchEntryBranch ==
  /\ pc = "L90r"
  /\ LET nxt == TwitchEntryNext(online = "true", Top.ret) IN
       /\ pc' = nxt
       /\ stack' = IF nxt = Top.ret THEN Pop ELSE stack
  /\ UNCHANGED <<log, primary, extra, nspawn, new_driver, resp, online, exc>>

(* driver.uc_open_with_reconnect(twitch_url, 5) *)
TwitchNavigatePrimary ==
  /\ pc = "L92"
  /\ \E r \in Void :
       Do(Ev(92, "uc_open_with_reconnect", Top.drv, TwitchUrl, TwitchReconnect, r),
          "L93", stack)
  /\ UNCHANGED <<primary, extra, nspawn, new_driver, resp, online>>

(* if driver.is_element_present('button:contains("Accept")'): *)
TwitchPrimaryConsentCheck ==
  /\ pc = "L93"
  /\ \E r \in Bool :
       Do(Ev(93, "is_element_present", Top.drv, AcceptButton, 0, r),
          ConsentNext(r, "L94", "L95"), stack)
  /\ UNCHANGED <<primary, extra, nspawn, new_driver, resp, online>>

(* driver.uc_click('button:contains("Accept")', reconnect_time=4) *)
TwitchPrimaryConsentClick ==
  /\ pc = "L94"
  /\ \E r \in Void :
       Do(Ev(94, "uc_click", Top.drv, AcceptButton, ClickReconnect, r),
          "L95", stack)
  /\ UNCHANGED <<primary, extra, nspawn, new_driver, resp, online>>

(* new_driver = driver.get_new_driver(undetectable=True) *)
TwitchSpawn ==
  /\ pc = "L95"
  /\ \E r \in Void :
       /\ Do(Ev(95, "get_new_driver", Top.drv, "", 0, r), "L96", stack)
       /\ IF r = "ok"
          THEN /\ nspawn' = nspawn + 1
               /\ extra' = Append(extra, ExtraName(nspawn + 1))
               /\ new_driver' = ExtraName(nspawn + 1)
          ELSE UNCHANGED <<nspawn, extra, new_driver>>
  /\ UNCHANGED <<primary, resp, online>>

(* new_driver.uc_open_with_reconnect(twitch_url, 5) *)
TwitchNavigateSecondary ==
  /\ pc = "L96"
  /\ \E r \in Void :
       Do(Ev(96, "uc_open_with_reconnect", new_driver, TwitchUrl, TwitchReconnect, r),
          "L97", stack)
  /\ UNCHANGED <<primary, extra, nspawn, new_driver, resp, online>>

(* driver.sleep(10) *)
TwitchSettle ==
  /\ pc = "L97"
  /\ Do(Ev(97, "sleep", Top.drv, "", MonitorSettle, "ok"), "L98", stack)
  /\ UNCHANGED <<primary, extra, nspawn, new_driver, resp, online>>

(* if new_driver.is_element_present('button:contains("Accept")'): *)
TwitchConsentCheck ==
  /\ pc = "L98"
  /\ \E r \in Bool :
       Do(Ev(98, "is_element_present", new_driver, AcceptButton, 0, r),
          ConsentNext(r, "L99", TwitchAfterRecheck), stack)
  /\ UNCHANGED <<primary, extra, nspawn, new_driver, resp, online>>

(* new_driver.uc_click('button:contains("Accept")', reconnect_time=4) *)
TwitchConsentClick ==
  /\ pc = "L99"
  /\ \E r \in Void :
       Do(Ev(99, "uc_click", new_driver, AcceptButton, ClickReconnect, r),
          TwitchAfterRecheck, stack)
  /\ UNCHANGED <<primary, extra, nspawn, new_driver, resp, online>>

(* driver.quit_extra_driver(), then return *)
TwitchTeardown ==
  /\ pc = "L104"
  /\ \E r \in Void :
       /\ Do(Ev(104, "quit_extra_driver", Top.drv, "", 0, r), Top.ret, Pop)
       /\ IF r = "ok"
          THEN /\ primary' = QuitExtraDriver(primary, extra).primary
               /\ extra' = QuitExtraDriver(primary, extra).extra
               /\ new_driver' = "none"
          ELSE UNCHANGED <<primary, extra, new_driver>>
  /\ UNCHANGED <<nspawn, resp, online>>

(* ----------------------------- specification ---------------------------- *)

Next ==
  \/ SBEnter
  \/ RunCallOpen
  \/ RunCallKick
  \/ RunSleepAfterKick
  \/ RunCallTwitch
  \/ RunSleepAfterTwitch
  \/ SBExit
  \/ OpenNavigate
  \/ OpenSleep
  \/ OpenCallCaptcha
  \/ OpenConsentCheck
  \/ OpenConsentClick
  \/ CaptchaClick
  \/ CaptchaSleep1
  \/ CaptchaHandle
  \/ CaptchaSleep4
  \/ KickEntryCheck
  \/ KickSpawn
  \/ KickCallOpen
  \/ KickSettle
  \/ KickConsentCheck
  \/ KickConsentClick
  \/ KickLoopTest
  \/ KickLoopSleep
  \/ KickTeardown
  \/ TwitchCallProbe
  \/ ProbeRequest
  \/ ProbeReturn
  \/ TwitchEntryBranch
  \/ TwitchNavigatePrimary
  \/ TwitchPrimaryConsentCheck
  \/ TwitchPrimaryConsentClick
  \/ TwitchSpawn
  \/ TwitchNavigateSecondary
  \/ TwitchSettle
  \/ TwitchConsentCheck
  \/ TwitchConsentClick
  \/ TwitchTeardown

Spec == Init /\ [][Next]_vars

(* The single thread of control keeps running: whenever a statement can be *)
(* executed, one eventually is.                                            *)
LiveSpec == Init /\ [][Next]_vars /\ WF_vars(Next)

TypeOK ==
  /\ primary \in {"none", "open", "closed"}
  /\ nspawn \in 0..2
  /\ new_driver \in {"none", "extra1", "extra2"}
  /\ online \in {"unset", "true", "false"}
  /\ exc \in BOOLEAN
  /\ resp \in Bodies \cup {NoBody}
  /\ Len(extra) <= 2
  /\ Len(stack) \in 1..4

(* --------------------------- reading the log --------------------------- *)

Idx(line) == {i \in 1..Len(log) : log[i].line = line}

InStep(st) == {i \in 1..Len(log) : log[i].step = st}

Last == log[Len(log)]

(* session creations and destructions that took effect in one monitor call *)
Created(st) ==
  {i \in InStep(st) : log[i].op = "get_new_driver" /\ log[i].res = "ok"}

Destroyed(st) ==
  {i \in InStep(st) : log[i].op = "quit_extra_driver" /\ log[i].res = "ok"}

(* a frame of one of the two monitor variants is on the call stack *)
MonitorActive == \E k \in 1..Len(stack) : stack[k].fn \in {"kick", "twitch"}

(* the monitor call has returned to run (normally) *)
KickReturned == pc = "L113" \/ Idx(113) # {}
TwitchReturned == pc = "L115" \/ Idx(115) # {}

(* outcome of the presence check at entry *)
KickPresent == \E i \in Idx(75) : log[i].res = "true"
KickAbsent == \E i \in Idx(75) : log[i].res = "false"
TwitchPresent == online = "true"
TwitchAbsent == online = "false"

Balanced(st) ==
  /\ Cardinality(Created(st)) = 1
  /\ Cardinality(Destroyed(st)) = 1
  /\ \A i \in Created(st) : \A j \in Destroyed(st) : i < j
  /\ Cardinality({i \in InStep(st) : log[i].op = "get_new_driver"}) = 1
  /\ Cardinality({i \in InStep(st) : log[i].op = "quit_extra_driver"}) = 1

(* ------------------------------- claims -------------------------------- *)

(* C1: whenever a monitor variant returns from a call whose presence check *)
(* at entry was true, that call has created exactly one secondary session  *)
(* and destroyed exactly one, the creation first, and the secondary is no  *)
(* longer live.                                                            *)
C1_Balanced ==
  /\ (KickReturned /\ KickPresent) => Balanced("kick")
  /\ (TwitchReturned /\ TwitchPresent) => Balanced("twitch")
  /\ (pc = "L113" /\ KickPresent) => (extra = <<>> /\ nspawn = 1)
  /\ (pc = "L115" /\ TwitchPresent) =>
        (extra = <<>> /\ nspawn = Cardinality(Created("kick")) + 1)

C1_Witness ==
  /\ pc = "L115"
  /\ KickPresent
  /\ TwitchPresent
  /\ nspawn = 2
  /\ extra = <<>>

(* C2: when the presence check at entry is false, the monitor call issues  *)
(* that single check and nothing else: no session is created, and no       *)
(* navigation, click, sleep or teardown is issued.                         *)
C2_NoEffectWhenAbsent ==
  /\ KickAbsent =>
       /\ Cardinality(InStep("kick")) = 1
       /\ \A i \in InStep("kick") : log[i].line = 75
       /\ Created("kick") = {}
       /\ (pc = "L113" => (nspawn = 0 /\ extra = <<>> /\ primary = "open"))
  /\ TwitchAbsent =>
       /\ Cardinality(InStep("twitch")) = 1
       /\ \A i \in InStep("twitch") : log[i].line = 33
       /\ Created("twitch") = {}
       /\ (pc = "L115" =>
             (nspawn = Cardinality(Created("kick")) /\ primary = "open"))

C2_Witness ==
  /\ pc = "L115"
  /\ KickAbsent
  /\ TwitchAbsent
  /\ nspawn = 0

(* C3: at no point after a monitor call has ended, by return or by a       *)
(* propagating failure, is a secondary session it created still live.      *)
C3_NoLeakedSecondary == (~MonitorActive) => extra = <<>>

(* C4: in the Kick monitor every evaluation of the loop test is made on    *)
(* the primary session; an evaluation that returns true is followed by     *)
(* exactly one 10s wait on the primary and then by the next evaluation; an *)
(* evaluation that returns false ends the loop and is followed by the      *)
(* teardown with no further wait.  So the number of waits equals the       *)
(* number of true evaluations, and only the last evaluation is false.      *)
LoopResults == [k \in 1..Cardinality(Idx(82)) |->
                  LET i == CHOOSE i \in Idx(82) :
                             Cardinality({j \in Idx(82) : j <= i}) = k
                  IN log[i].res]

C4_WaitWhilePresent ==
  /\ \A i \in Idx(82) :
       /\ log[i].on = "primary"
       /\ log[i].op = "is_element_visible"
       /\ log[i].sel = PlayerElement
       /\ log[i].res = "true" =>
            IF i = Len(log) THEN pc = "L83"
            ELSE /\ log[i + 1].line = 83
                 /\ IF i + 1 = Len(log) THEN pc = "L82"
                    ELSE log[i + 2].line = 82
       /\ log[i].res = "false" =>
            IF i = Len(log) THEN pc = "L84" ELSE log[i + 1].line = 84
  /\ \A i \in Idx(83) :
       /\ log[i].on = "primary"
       /\ log[i].op = "sleep"
       /\ log[i].n = 10
       /\ log[i - 1].line = 82
       /\ log[i - 1].res = "true"
  /\ \A i \in Idx(84) :
       /\ log[i - 1].line = 82
       /\ log[i - 1].res = "false"
  /\ (pc = "L84" \/ Idx(84) # {}) =>
       /\ Waits = Cardinality({i \in Idx(82) : log[i].res = "true"})
       /\ Cardinality({i \in Idx(82) : log[i].res = "false"}) = 1

C4_Witness ==
  /\ pc = "L84"
  /\ LoopResults = <<"true", "true", "true", "false">>
  /\ Waits = 3
  /\ Last.line = 82

(* C5: the run acquires the primary session exactly once, and every run    *)
(* that has ended, normally or by a failure of any step, has released it;  *)
(* the run can only stop once it has ended.                                *)
Acquired == {i \in 1..Len(log) : log[i].op = "SB_enter"}
Released == {i \in 1..Len(log) : log[i].op = "SB_exit"}

C5_PrimaryReleased ==
  /\ Cardinality(Acquired) <= 1
  /\ (pc # "L110") => Cardinality(Acquired) = 1
  /\ (pc = "done") => (primary = "closed" /\ Cardinality(Released) = 1)
  /\ (pc # "done") => (ENABLED Next /\ Released = {})
  /\ (pc \notin {"L110", "done"}) => primary = "open"

C5_Witness ==
  /\ pc = "done"
  /\ exc
  /\ primary = "closed"
  /\ \E i \in Idx(33) : log[i].res = "raise"

(* C6: no step taken inside a monitor call closes the primary session,     *)
(* including the step that ends the call; a teardown that takes effect     *)
(* removes exactly the secondary session created by that call.             *)
C6_MonitorKeepsPrimary ==
  [][ /\ MonitorActive => (primary = "open" /\ primary' = "open")
      /\ (pc \in {"L84", "L104"} /\ ~exc') =>
            /\ new_driver \in {extra[k] : k \in 1..Len(extra)}
            /\ extra' = SelectSeq(extra, LAMBDA x : x # new_driver)
            /\ Len(extra') = Len(extra) - 1 ]_vars

C6_Witness ==
  /\ pc = "L115"
  /\ Cardinality(Destroyed("kick")) = 1
  /\ Cardinality(Destroyed("twitch")) = 1
  /\ primary = "open"

(* position of a logged call in the sequence of steps of run *)
Rank(e) ==
  CASE e.op = "SB_enter" -> 0
    [] e.step = "open" -> 1
    [] e.step = "kick" -> 2
    [] e.line = 113 -> 3
    [] e.step = "twitch" -> 4
    [] e.line = 115 -> 5
    [] e.op = "SB_exit" -> 6

IsStepPause(e) ==
  /\ e.op = "sleep"
  /\ e.n = 1
  /\ e.on = "primary"
  /\ e.step = "run"

StepsInOrder ==
  /\ \A i \in 1..(Len(log) - 1) : Rank(log[i]) <= Rank(log[i + 1])
  /\ \A i \in InStep("open") :
        log[i].line = 63 => (log[i].n = 4 /\ log[i].sel = PlatformUrl)
  /\ \A i \in InStep("open") : log[i].on = "primary"
  /\ Cardinality({i \in InStep("open") : log[i].line = 63}) <= 1
  /\ Cardinality(Idx(75)) <= 1
  /\ Cardinality(Idx(33)) <= 1
  /\ (pc = "done" /\ ~exc) =>
        /\ Cardinality({i \in InStep("open") : log[i].line = 63}) = 1
        /\ Cardinality(Idx(75)) = 1
        /\ Cardinality(Idx(33)) = 1

(* C7 (as stated): the three steps run in order, each once, and a 1s pause *)
(* on the primary session precedes the Kick monitor as well as the Twitch  *)
(* monitor.                                                                *)
C7_PauseBetweenAllSteps ==
  /\ StepsInOrder
  /\ (pc = "L75") => IsStepPause(Last)
  /\ (pc = "L90") => IsStepPause(Last)

(* C7 (amended): the three steps run in order, each once; the Kick monitor *)
(* starts right after the opening step with no pause in between; a 1s      *)
(* pause on the primary session follows the Kick monitor, before the       *)
(* Twitch monitor, and another follows the Twitch monitor.                 *)
C7_PauseAfterEachMonitor ==
  /\ StepsInOrder
  /\ (pc = "L75") => (Last.step = "open" /\ Last.line \in {68, 69})
  /\ (pc = "L90") => (IsStepPause(Last) /\ Last.line = 113)
  /\ (pc = "L114") => (IsStepPause(Last) /\ Last.line = 113)
  /\ (pc = "L113" \/ pc = "L115") => ~IsStepPause(Last)
  /\ (pc = "exit" /\ ~exc) => (IsStepPause(Last) /\ Last.line = 115)
  /\ Cardinality(Idx(113)) <= 1
  /\ Cardinality(Idx(115)) <= 1
  /\ \A i \in 1..Len(log) : IsStepPause(log[i]) => log[i].line \in {113, 115}
  /\ (pc = "done" /\ ~exc) =>
        (Cardinality(Idx(113)) = 1 /\ Cardinality(Idx(115)) = 1)

C7_Witness ==
  /\ pc = "done"
  /\ ~exc
  /\ KickPresent
  /\ TwitchPresent

(* C8: a failed call is the last call the run issues: the failure is not   *)
(* caught, the run goes straight to the release of the primary session and *)
(* ends with the failure still in flight.                                  *)
Failures == {i \in 1..Len(log) : log[i].res = "raise"}

C8_FailurePropagates ==
  /\ \A i \in Failures :
       /\ exc
       /\ pc \in {"exit", "done"}
       /\ Len(stack) = 1
       /\ IF pc = "exit" THEN i = Len(log)
          ELSE i = Len(log) - 1 /\ Last.op = "SB_exit"
  /\ exc => Cardinality(Failures) = 1
  /\ \A i \in Failures :
       log[i].step \in {"open", "kick"} =>
          (InStep("twitch") = {} /\ Idx(33) = {} /\ online = "unset")

C8_Witness ==
  /\ pc = "done"
  /\ exc
  /\ \E i \in Failures : log[i].step = "kick" /\ log[i].line = 82

(* C9: the Kick monitor leaves its wait loop towards the teardown only by  *)
(* an evaluation of the loop test that returned false (short of a failure  *)
(* nothing else ends the loop, and a true evaluation always leads to       *)
(* another wait and another evaluation); and in a run where no call fails, *)
(* once the loop is entered the teardown is eventually reached.            *)
InWaitLoop == pc \in {"L82", "L83"}

C9_LoopExit ==
  /\ [][ /\ (InWaitLoop /\ ~InWaitLoop' /\ ~exc') =>
               /\ pc = "L82"
               /\ pc' = "L84"
               /\ log' = Append(log, log'[Len(log')])
               /\ log'[Len(log')].line = 82
               /\ log'[Len(log')].res = "false"
         /\ (pc' = "L84") => (pc = "L82" /\ log'[Len(log')].res = "false")
         /\ (pc = "L82" /\ pc' = "L83") => log'[Len(log')].res = "true"
         /\ (pc = "L83") => pc' = "L82" ]_vars
  /\ ([]~exc) => (InWaitLoop ~> (pc = "L84"))

C9_Witness ==
  /\ pc = "L82"
  /\ Waits = 3
  /\ Last.line = 83
  /\ \A i \in Idx(82) : log[i].res = "true"

(* C10: in the obstacle-dismissal sequence run on a session (CAPTCHA steps *)
(* of handle_captcha followed by the consent check), a consent check that  *)
(* reports the button absent issues no click and raises nothing; a check   *)
(* that reports it present is followed by exactly one click on the consent *)
(* button of that same session; no click is issued without such a check.   *)
C10_ConsentStep ==
  /\ \A i \in Idx(68) :
       /\ log[i].op = "is_element_present"
       /\ log[i].sel = AcceptButton
       /\ log[i - 1].line = 49
       /\ log[i - 1].on = log[i].on
       /\ log[i].res = "false" =>
            /\ (i = Len(log)) => (~exc /\ pc \in {"L112", "L75", "L78"})
            /\ (i < Len(log)) => (log[i + 1].op # "uc_click"
                                   /\ log[i + 1].line \in {75, 78})
       /\ log[i].res = "true" =>
            /\ (i = Len(log)) => pc = "L69"
            /\ (i < Len(log)) =>
                 /\ log[i + 1].line = 69
                 /\ log[i + 1].op = "uc_click"
                 /\ log[i + 1].sel = AcceptButton
                 /\ log[i + 1].on = log[i].on
                 /\ log[i + 1].n = 4
            /\ (i + 1 < Len(log)) => log[i + 2].op # "uc_click"
  /\ \A i \in Idx(69) : log[i - 1].line = 68 /\ log[i - 1].res = "true"
  /\ \A i \in 1..Len(log) :
       log[i].line \in {46, 47, 48, 49} => log[i].op # "uc_click"

C10_Witness ==
  /\ \E i \in Idx(68) : log[i].res = "false" /\ log[i].on = "primary"
                         /\ i < Len(log)
  /\ \E i \in Idx(68) : log[i].res = "true" /\ log[i].on = "extra1"
                         /\ i < Len(log) /\ log[i + 1].res = "ok"
  /\ pc = "L79"

(* C11: one invocation of is_twitch_online issues exactly one request; it  *)
(* returns true exactly for the bodies that have the marker as a           *)
(* contiguous, case-sensitive substring and false for the others; a failed *)
(* request returns nothing and the failure propagates.                     *)
HasMarker(body) ==
  \E k \in 1..Len(body) :
     /\ k + Len(Marker) - 1 <= Len(body)
     /\ SubSeq(body, k, k + Len(Marker) - 1) = Marker

C11_ProbeResult ==
  /\ Cardinality(Idx(33)) <= 1
  /\ \A i \in Idx(33) :
       /\ log[i].op = "requests_get"
       /\ log[i].sel = TwitchUrl
       /\ log[i].res = "raise" => (online = "unset" /\ exc /\ resp = NoBody)
       /\ (log[i].res = "ok" /\ pc # "L34") => online \in {"true", "false"}
  /\ online # "unset" =>
       /\ Cardinality(Idx(33)) = 1
       /\ resp \in Bodies
       /\ (online = "true") <=> HasMarker(resp)
       /\ (online = "false") <=> ~HasMarker(resp)
  /\ (online = "true") =>
       resp \in {Marker, <<"{">> \o Marker \o <<"}">>,
                 <<"i","s","L","i","v","e","B","r","o","a","d","c","a","s","T">>
                    \o Marker}

C11_Witness ==
  /\ online = "true"
  /\ resp = <<"{">> \o Marker \o <<"}">>
  /\ pc = "L92"

(* C12: every navigation of a secondary session comes after the CAPTCHA    *)
(* click-through and the CAPTCHA resolve have both completed on the        *)
(* primary session.                                                        *)
C12_MirrorAfterPrimaryDismissal ==
  \A i \in 1..Len(log) :
     (log[i].op = "uc_open_with_reconnect" /\ log[i].on # "primary") =>
        \E j \in Idx(46) : \E k \in Idx(49) :
           /\ j < k
           /\ k < i
           /\ log[j].on = "primary"
           /\ log[j].res = "ok"
           /\ log[k].on = "primary"
           /\ log[k - 1].line = 48
           /\ log[k - 1].on = "primary"
           /\ log[k - 1].res = "ok"

C12_Witness ==
  /\ pc = "L97"
  /\ \E i \in Idx(63) : log[i].on = "extra1"
  /\ \E i \in Idx(96) : log[i].on = "extra2"

(* C13: with presence true at entry, a monitor call that has returned has  *)
(* issued, from the spawn to the teardown and leaving aside the entry      *)
(* check, the wait loop, the primary's own navigation and the optional     *)
(* consent clicks, the same calls in the same order in both variants:      *)
(* spawn, navigate the secondary with budget 5, pause 4s, CAPTCHA          *)
(* click-through, pause 1s, CAPTCHA resolve, pause 4s, consent check, all  *)
(* on the secondary, then pause 10s on the primary, consent re-check on    *)
(* the secondary, teardown.                                                *)
Role(e) == IF e.on = "primary" THEN "primary" ELSE "secondary"

Shape(st) ==
  LET kept == SelectSeq(log, LAMBDA e :
                 /\ e.step = st
                 /\ e.line \notin {33, 75, 82, 83, 92, 93, 94}
                 /\ e.op # "uc_click")
  IN [k \in 1..Len(kept) |->
        [op |-> kept[k].op, n |-> kept[k].n, role |-> Role(kept[k])]]

MirrorShape ==
  << [op |-> "get_new_driver", n |-> 0, role |-> "primary"],
     [op |-> "uc_open_with_reconnect", n |-> 5, role |-> "secondary"],
     [op |-> "sleep", n |-> 4, role |-> "secondary"],
     [op |-> "uc_gui_click_captcha", n |-> 0, role |-> "secondary"],
     [op |-> "sleep", n |-> 1, role |-> "secondary"],
     [op |-> "uc_gui_handle_captcha", n |-> 0, role |-> "secondary"],
     [op |-> "sleep", n |-> 4, role |-> "secondary"],
     [op |-> "is_element_present", n |-> 0, role |-> "secondary"],
     [op |-> "sleep", n |-> 10, role |-> "primary"],
     [op |-> "is_element_present", n |-> 0, role |-> "secondary"],
     [op |-> "quit_extra_driver", n |-> 0, role |-> "primary"] >>

C13_SameMirrorShape ==
  /\ (pc = "L113" /\ KickPresent) => Shape("kick") = MirrorShape
  /\ (pc = "L115" /\ TwitchPresent) => Shape("twitch") = MirrorShape

(* C14: the Twitch monitor has no wait phase.  One invocation issues the   *)
(* liveness request once, no visibility poll and no pause other than the   *)
(* single 10s settle of line 97; the consent re-check on the secondary is  *)
(* followed (after its optional click) by the teardown; no statement of    *)
(* the monitor is executed twice, so a call issues at most ten calls; and  *)
(* in a run where no call fails, a started Twitch monitor returns.         *)
C14_Straight ==
  /\ Cardinality(Idx(33)) <= 1
  /\ \A i \in InStep("twitch") :
       /\ log[i].op # "is_element_visible"
       /\ log[i].op = "sleep" => (log[i].line = 97 /\ log[i].n = 10)
       /\ log[i].line \in {33, 92, 93, 94, 95, 96, 97, 98, 99, 104}
       /\ \A j \in InStep("twitch") : log[i].line = log[j].line => i = j
  /\ Cardinality(InStep("twitch")) <= 10
  /\ \A i \in Idx(98) :
       /\ log[i].res = "false" =>
            IF i = Len(log) THEN pc = "L104" ELSE log[i + 1].line = 104
       /\ log[i].res = "true" =>
            IF i = Len(log) THEN pc = "L99"
            ELSE /\ log[i + 1].line = 99
                 /\ log[i + 1].res = "ok" =>
                      IF i + 1 = Len(log) THEN pc = "L104"
                      ELSE log[i + 2].line = 104

C14_TwitchNoWaitPhase ==
  /\ []C14_Straight
  /\ ([]~exc) => ((pc = "L90") ~> (pc = "L115"))

C14_Witness ==
  /\ pc = "L115"
  /\ TwitchPresent
  /\ Last.line = 104
  /\ \E i \in Idx(98) : log[i].res = "true"

(* C15: a navigation to the Twitch URL and the spawn of the Twitch         *)
(* monitor's secondary happen only after is_twitch_online has returned     *)
(* true in this run; the liveness request is made at most once per run and *)
(* only after the Kick monitor has returned to run.                        *)
C15_ProbeGatesTwitch ==
  /\ \A i \in 1..Len(log) :
       ((log[i].op = "uc_open_with_reconnect" /\ log[i].sel = TwitchUrl)
          \/ log[i].line = 95) =>
          /\ online = "true"
          /\ HasMarker(resp)
          /\ \E j \in Idx(33) : j < i /\ log[j].res = "ok"
  /\ \A i \in 1..Len(log) :
       (log[i].op = "uc_open_with_reconnect" /\ log[i].sel # TwitchUrl) =>
          log[i].line = 63
  /\ Cardinality(Idx(33)) <= 1
  /\ \A i \in Idx(33) :
       /\ \E j \in Idx(75) : j < i
       /\ \A j \in InStep("kick") : j < i /\ log[j].res # "raise"
       /\ log[i - 1].line = 113
  /\ (online = "false") => (Idx(92) = {} /\ Idx(95) = {} /\ Idx(96) = {})

C15_Witness ==
  /\ pc = "L97"
  /\ online = "true"
  /\ \E i \in Idx(92) : log[i].res = "ok"
  /\ \E i \in Idx(96) : log[i].res = "ok"

(* the calls of one invocation of open_stream_and_handle_popups, which     *)
(* starts at log index i, up to and including its consent check: as far as *)
(* the invocation got, they are the navigation with the budget given by    *)
(* the caller, pause 4s, CAPTCHA click-through, pause 1s, CAPTCHA resolve, *)
(* pause 4s and the consent check, all on the session of the navigation.   *)
OpenerCallsOK(i) ==
  LET s == log[i].on
      got(k) == /\ i + k <= Len(log)
                /\ \A m \in 0..(k - 1) : log[i + m].res # "raise"
  IN
  /\ log[i].op = "uc_open_with_reconnect"
  /\ log[i].sel = PlatformUrl
  /\ log[i].n = (IF log[i].step = "open" THEN 4 ELSE 5)
  /\ got(1) => (log[i + 1].op = "sleep" /\ log[i + 1].n = 4
                  /\ log[i + 1].on = s)
  /\ got(2) => (log[i + 2].op = "uc_gui_click_captcha" /\ log[i + 2].on = s)
  /\ got(3) => (log[i + 3].op = "sleep" /\ log[i + 3].n = 1
                  /\ log[i + 3].on = s)
  /\ got(4) => (log[i + 4].op = "uc_gui_handle_captcha" /\ log[i + 4].on = s)
  /\ got(5) => (log[i + 5].op = "sleep" /\ log[i + 5].n = 4
                  /\ log[i + 5].on = s)
  /\ got(6) => (log[i + 6].op = "is_element_present"
                  /\ log[i + 6].sel = AcceptButton /\ log[i + 6].on = s)
  /\ (got(7) /\ log[i + 6].res = "true") =>
        (log[i + 7].op = "uc_click" /\ log[i + 7].sel = AcceptButton
           /\ log[i + 7].on = s)
  /\ (got(7) /\ log[i + 6].res = "false") => log[i + 7].op # "uc_click"

(* index of the call that follows the consent step of that invocation *)
AfterConsent(i) == IF log[i + 6].res = "true" THEN i + 8 ELSE i + 7

ConsentStepDone(i) ==
  /\ i + 6 <= Len(log)
  /\ AfterConsent(i) <= Len(log)
  /\ \A m \in 0..(AfterConsent(i) - i - 1) : log[i + m].res # "raise"

(* C16 (as stated): after its consent check (and click) the invocation     *)
(* checks the consent button of the same session a second time.            *)
C16_TwoConsentChecks ==
  \A i \in Idx(63) :
     /\ OpenerCallsOK(i)
     /\ ConsentStepDone(i) =>
          /\ log[AfterConsent(i)].op = "is_element_present"
          /\ log[AfterConsent(i)].sel = AcceptButton
          /\ log[AfterConsent(i)].on = log[i].on

(* C16 (amended): one invocation performs, in order and on one session:    *)
(* navigate with the given budget, pause 4s, CAPTCHA click-through, pause  *)
(* 1s, CAPTCHA resolve, pause 4s, and one consent check with a click if    *)
(* the button is present; then it returns: the next call of the run is     *)
(* issued by the caller (line 75 or line 78) on the primary session and is *)
(* not a consent check.                                                    *)
C16_OneConsentCheck ==
  \A i \in Idx(63) :
     /\ OpenerCallsOK(i)
     /\ ConsentStepDone(i) =>
          /\ log[AfterConsent(i)].op # "is_element_present"
          /\ log[AfterConsent(i)].on = "primary"
          /\ log[AfterConsent(i)].line =
                (IF log[i].step = "open" THEN 75 ELSE 78)
     /\ Cardinality({j \in Idx(68) : log[j].on = log[i].on}) <= 1

C16_Witness ==
  /\ pc = "L79"
  /\ \E i \in Idx(63) : log[i].on = "primary" /\ log[i + 6].res = "true"
                         /\ log[i + 7].res = "ok"
  /\ \E i \in Idx(63) : log[i].on = "extra1" /\ log[i + 6].res = "false"
                         /\ ConsentStepDone(i)

(* number of browser sessions that are live *)
LiveCount == (IF primary = "open" THEN 1 ELSE 0) + Len(extra)

(* C17 (as stated): from the acquisition of the primary session on, the    *)
(* number of live sessions is zero or two.                                 *)
C17_ZeroOrTwoLive == (pc # "L110") => LiveCount \in {0, 2}

(* C17 (amended): from the acquisition of the primary session until its    *)
(* release the number of live sessions is one (the primary alone) or two   *)
(* (the primary with one secondary): never zero, never more than two; a    *)
(* second session is live only inside a monitor call or once a failure is  *)
(* in flight.                                                              *)
C17_OneOrTwoLive ==
  /\ LiveCount <= 2
  /\ (pc = "L110") => LiveCount = 0
  /\ (pc \notin {"L110", "done"}) => (primary = "open" /\ LiveCount \in {1, 2})
  /\ (pc = "done") => (primary = "closed" /\ LiveCount <= 1)
  /\ (LiveCount = 2) => (primary = "open" /\ (MonitorActive \/ exc))
  /\ (pc \in {"L111", "L112", "L113", "L114", "L115"}) => LiveCount = 1

C17_Witness ==
  /\ pc = "L97"
  /\ LiveCount = 2
  /\ Cardinality(Destroyed("kick")) = 1
  /\ extra = <<"extra2">>

(* C18: a Kick monitor call that had presence true at entry and has        *)
(* returned after k polling waits has evaluated the visibility predicate   *)
(* k + 2 times: once at entry (line 75) and k + 1 times in the loop test   *)
(* (line 82), the last one false.  When the first loop evaluation is false *)
(* the secondary has nevertheless been spawned and mirrored, and the call  *)
(* returns with it torn down and zero waits.                               *)
VisibilityEvals ==
  {i \in InStep("kick") : log[i].op = "is_element_visible"}

FirstLoopEvalFalse ==
  \E i \in Idx(82) : log[i].res = "false" /\ \A j \in Idx(82) : i <= j

C18_SeparateEvaluations ==
  /\ (KickReturned /\ KickPresent) =>
       /\ Cardinality(VisibilityEvals) = Waits + 2
       /\ Cardinality(Idx(75)) = 1
       /\ Cardinality(Idx(82)) = Waits + 1
  /\ FirstLoopEvalFalse =>
       /\ KickPresent
       /\ Waits = 0
       /\ Cardinality(Created("kick")) = 1
       /\ \E i \in Idx(63) : log[i].on = "extra1" /\ log[i].res = "ok"
       /\ \E i \in Idx(79) : log[i].on = "extra1"
       /\ KickReturned => (Balanced("kick") /\ Idx(83) = {})
       /\ (pc = "L113") => extra = <<>>

C18_Witness ==
  /\ pc = "L113"
  /\ KickPresent
  /\ FirstLoopEvalFalse
  /\ Waits = 0
  /\ Cardinality(Destroyed("kick")) = 1

(* C19: at most one secondary session is live at any time and at most two  *)
(* are created in a run, at most one by each monitor; the Twitch monitor   *)
(* creates its secondary only after the one of the Kick monitor has been   *)
(* destroyed; quit_extra_driver is issued only while a secondary, the one  *)
(* the call created, is live.                                              *)
C19_SecondaryLifetimes ==
  /\ Len(extra) <= 1
  /\ nspawn <= 2
  /\ nspawn = Cardinality(Created("kick")) + Cardinality(Created("twitch"))
  /\ Cardinality(Created("kick")) <= 1
  /\ Cardinality(Created("twitch")) <= 1
  /\ \A i \in Created("twitch") : \A j \in Created("kick") :
        \E d \in Destroyed("kick") : j < d /\ d < i
  /\ (pc \in {"L84", "L104"}) => (Len(extra) = 1 /\ extra[1] = new_driver)
  /\ \A i \in 1..Len(log) :
        log[i].op = "quit_extra_driver" =>
           \E j \in Created(log[i].step) :
              /\ j < i
              /\ \A d \in Destroyed(log[i].step) : d >= i

C19_Witness ==
  /\ pc = "L96"
  /\ nspawn = 2
  /\ extra = <<"extra2">>
  /\ Cardinality(Destroyed("kick")) = 1

(* the URL a session shows: the target of its last successful navigation *)
Location(s) ==
  LET navs == {i \in 1..Len(log) : /\ log[i].op = "uc_open_with_reconnect"
                                   /\ log[i].on = s
                                   /\ log[i].res = "ok"}
  IN IF navs = {} THEN "about:blank"
     ELSE log[CHOOSE i \in navs : \A j \in navs : j <= i].sel

(* C20: the Kick monitor only reads visibility, sleeps, spawns and tears   *)
(* down through the primary session and issues every navigation, CAPTCHA   *)
(* step, consent check and click on the secondary, so the primary still    *)
(* shows the streamer's URL when it returns; the Twitch monitor, when the  *)
(* probe is true, first navigates the primary to the Twitch URL with       *)
(* budget 5 and checks its consent button, then spawns the secondary, and  *)
(* the primary shows the Twitch URL when it returns.                       *)
C20_PrimaryLocation ==
  /\ \A i \in InStep("kick") :
       IF log[i].on = "primary"
       THEN log[i].op \in {"is_element_visible", "sleep", "get_new_driver",
                           "quit_extra_driver"}
       ELSE /\ log[i].on = "extra1"
            /\ log[i].op \in {"uc_open_with_reconnect", "sleep",
                              "uc_gui_click_captcha", "uc_gui_handle_captcha",
                              "is_element_present", "uc_click"}
  /\ (pc \in {"L75", "L113", "L114", "L90", "L33", "L34", "L90r"}) =>
        Location("primary") = PlatformUrl
  /\ (Idx(92) = {} /\ pc \notin {"L110", "L111", "L63"} /\ ~exc) =>
        Location("primary") = PlatformUrl
  /\ \A i \in Idx(92) :
       /\ log[i].on = "primary"
       /\ log[i].sel = TwitchUrl
       /\ log[i].n = 5
       /\ online = "true"
       /\ \A j \in Idx(95) : i < j
       /\ \A j \in Idx(93) : i < j /\ log[j].on = "primary"
                              /\ log[j].op = "is_element_present"
                              /\ \A k \in Idx(95) : j < k
  /\ \A k \in Idx(95) : Idx(93) # {} /\ Idx(92) # {}
  /\ (pc = "L115" /\ TwitchPresent) =>
        (Location("primary") = TwitchUrl /\ Location("primary") # PlatformUrl)
  /\ (pc = "L115" /\ TwitchAbsent) => Location("primary") = PlatformUrl

C20_Witness ==
  /\ pc = "L115"
  /\ KickPresent
  /\ TwitchPresent
  /\ Location("primary") = TwitchUrl
  /\ Location("extra1") = PlatformUrl

====
